---------------------------- MODULE Spec2Model ----------------------------
(***************************************************************************)
(* PPT modulator frame decoder (pptApp/src/pptDecode.c).                   *)
(*                                                                         *)
(* Two aSub record subroutines, pptDecodeThyratronKlystron and             *)
(* pptDecodeMagnetsTimersStatus, each decode 15 output values VALA..VALO   *)
(* from the byte buffer the record holds in INPA (prec->a, with prec->nea  *)
(* elements received).                                                     *)
(*                                                                         *)
(* A double is held as the exact quotient [n |-> numerator, d |-> divisor] *)
(* of the division that produced it: rawVal / 10.0 is [n |-> rawVal,       *)
(* d |-> 10], (double)rawVal is [n |-> rawVal, d |-> 1].                   *)
(* Buffers are functions on 0 .. len-1, indexed as the C arrays are.       *)
(***************************************************************************)
EXTENDS Integers, Sequences, FiniteSets, TLC

VARIABLES frame,   \* the buffer the transport last delivered (input of INPA)
          prec     \* the two aSub records: prec[r] is the record of routine r

vars == <<frame, prec>>

---------------------------------------------------------------------------
(* Bounds of the model *)

MaxPattern == 2    \* byte patterns 0 .. MaxPattern are delivered
MaxExtra == 1      \* frames carry up to MaxExtra bytes after byte 85

(* Program constants *)

FRAME_BYTES == 86  \* if(prec->nea < 86)

---------------------------------------------------------------------------
(* Frames the transport can deliver *)

ByteAt(p, i) ==
    CASE p = 0 -> IF i = 0 THEN 100 ELSE 0       \* word 100 at offset 0, rest zero
      [] p = 1 -> 255                            \* every word 0xFFFF
      [] p = 2 -> (7 * i + 3) % 256              \* every word different, high bits from byte 18
      [] OTHER -> (255 - p * i) % 256            \* high bits set, descending

MakeFrame(p, len) == [i \in 0 .. len - 1 |-> ByteAt(p, i)]

Len0(buf) == Cardinality(DOMAIN buf)

\* One byte short of a frame, a frame, a frame with trailing bytes.  Before
\* the first read the buffer is empty (Init).
FrameLengths == (FRAME_BYTES - 1) .. (FRAME_BYTES + MaxExtra)

Frames == {MakeFrame(p, len) : p \in 0 .. MaxPattern, len \in FrameLengths}

---------------------------------------------------------------------------
(* getWord *)

RECURSIVE BitOr(_, _)
BitOr(x, y) ==
    IF x = 0 THEN y
    ELSE IF y = 0 THEN x
    ELSE (IF x % 2 = 1 \/ y % 2 = 1 THEN 1 ELSE 0) + 2 * BitOr(x \div 2, y \div 2)

ShiftLeft(x, k) == x * 2 ^ k

getWord_bigEndian(data, offset) ==
    BitOr(data[offset + 1], ShiftLeft(data[offset], 8)) % 65536

getWord(data, offset) ==
    BitOr(data[offset], ShiftLeft(data[offset + 1], 8)) % 65536

---------------------------------------------------------------------------
(* The records *)

Records == {"TK", "MTS"}

Outs == {"A", "B", "C", "D", "E", "F", "G", "H", "I", "J", "K", "L", "M", "N", "O"}

Zero == [n |-> 0, d |-> 1]

NoSource == [off |-> -1, div |-> 1]

\* A record after record initialisation: buffers empty, outputs 0.0.
\* out: the lines the most recent call printed; written: the outputs the most
\* recent call assigned; from: the offset and divisor each output was last
\* computed with.
InitRec ==
    [a |-> MakeFrame(0, 0), nea |-> 0,
     val |-> [o \in Outs |-> Zero],
     ret |-> 0,
     out |-> << >>,
     written |-> {},
     from |-> [o \in Outs |-> NoSource]]

printf(st, tag, raw) == [st EXCEPT !.out = Append(@, [tag |-> tag, raw |-> raw])]

---------------------------------------------------------------------------
(* The statements of the two routines *)

\* rawVal = getWord(rawData, off); *out = rawVal / div; printf(tag, rawVal, *out)
Field(out, off, div, tag) ==
    [kind |-> "word", out |-> out, off |-> off, div |-> div, tag |-> tag]

\* *out = 0.0
Reserved(out) ==
    [kind |-> "zero", out |-> out, off |-> -1, div |-> 1, tag |-> ""]

TooShort_below85(nea) == nea < 85

TooShort_upTo86(nea) == nea <= 86

TooShort_not86(nea) == nea # 86

TooShort(nea) == nea < FRAME_BYTES

Quotient_by100(rawVal, div) == [n |-> rawVal, d |-> 100]

\* rawVal / 10.0, rawVal / 100.0, (double)rawVal
Quotient(rawVal, div) == [n |-> rawVal, d |-> div]

ExecWord(st, s) ==
    LET rawVal == getWord(st.a, s.off)
        value == Quotient(rawVal, s.div)
    IN  printf([st EXCEPT !.val[s.out] = value,
                          !.written = @ \cup {s.out},
                          !.from[s.out] = [off |-> s.off, div |-> s.div]],
               s.tag, rawVal)

ExecZero(st, s) ==
    [st EXCEPT !.val[s.out] = Zero,
               !.written = @ \cup {s.out},
               !.from[s.out] = NoSource]

Exec_skipZeroWord(st, s) ==
    IF s.kind = "zero" THEN ExecZero(st, s)
    ELSE IF getWord(st.a, s.off) = 0 THEN printf(st, s.tag, 0)
    ELSE ExecWord(st, s)

Exec(st, s) == IF s.kind = "zero" THEN ExecZero(st, s) ELSE ExecWord(st, s)

RECURSIVE Run(_, _)
Run(st, stmts) ==
    IF stmts = << >> THEN st ELSE Run(Exec(st, Head(stmts)), Tail(stmts))

ThyratronKlystronBody_copiedOffset ==
    << Field("A", 0, 10, "Thyratron HeaterVoltage"),
       Field("B", 0, 10, "Thyratron ReservoirVoltage"),
       Field("C", 4, 100, "Thyratron TotalCurrent"),
       Field("D", 14, 10, "Klystron HeaterVoltage"),
       Field("E", 16, 100, "Klystron HeaterCurrent"),
       Field("F", 18, 10, "Klystron BodyWaterInTemp"),
       Field("G", 20, 10, "Klystron BodyWaterOutTemp"),
       Field("H", 22, 100, "Klystron BodyWaterFlow"),
       Field("I", 24, 10, "Klystron DissipatedPower"),
       Field("J", 26, 10, "Klystron OilTemp"),
       Field("K", 10, 1, "Thyratron InterlockRaw"),
       Field("L", 12, 1, "Thyratron StatusRaw"),
       Field("M", 32, 1, "Klystron InterlockRaw"),
       Field("N", 34, 1, "Klystron StatusRaw"),
       Reserved("O") >>

ThyratronKlystronBody ==
    << Field("A", 0, 10, "Thyratron HeaterVoltage"),
       Field("B", 2, 10, "Thyratron ReservoirVoltage"),
       Field("C", 4, 100, "Thyratron TotalCurrent"),
       Field("D", 14, 10, "Klystron HeaterVoltage"),
       Field("E", 16, 100, "Klystron HeaterCurrent"),
       Field("F", 18, 10, "Klystron BodyWaterInTemp"),
       Field("G", 20, 10, "Klystron BodyWaterOutTemp"),
       Field("H", 22, 100, "Klystron BodyWaterFlow"),
       Field("I", 24, 10, "Klystron DissipatedPower"),
       Field("J", 26, 10, "Klystron OilTemp"),
       Field("K", 10, 1, "Thyratron InterlockRaw"),
       Field("L", 12, 1, "Thyratron StatusRaw"),
       Field("M", 32, 1, "Klystron InterlockRaw"),
       Field("N", 34, 1, "Klystron StatusRaw"),
       Reserved("O") >>

MagnetsTimersStatusBody ==
    << Field("A", 36, 10, "FocusMagnet Coil1Voltage"),
       Field("B", 38, 100, "FocusMagnet Coil1Current"),
       Field("C", 40, 10, "FocusMagnet Coil2Voltage"),
       Field("D", 42, 100, "FocusMagnet Coil2Current"),
       Field("E", 44, 10, "FocusMagnet Coil3Voltage"),
       Field("F", 46, 100, "FocusMagnet Coil3Current"),
       Field("G", 52, 10, "Premagnetisation Voltage"),
       Field("H", 54, 100, "Premagnetisation Current"),
       Field("I", 6, 1, "Thyratron TimerPreheatMin"),
       Field("J", 8, 1, "Thyratron TimerPreheatSec"),
       Field("K", 28, 1, "Klystron TimerPreheat100Min"),
       Field("L", 48, 1, "FocusMagnet InterlockRaw"),
       Field("M", 50, 1, "FocusMagnet StatusRaw"),
       Field("N", 56, 1, "Premagnetisation InterlockRaw"),
       Field("O", 58, 1, "Premagnetisation StatusRaw") >>

\* Entry of a call: nothing printed and nothing assigned yet by this call.
Enter(p) == [p EXCEPT !.out = << >>, !.written = {}]

pptDecodeThyratronKlystron(p) ==
    IF TooShort(p.nea)
    THEN [printf(Enter(p), "ERROR: received less bytes", p.nea) EXCEPT !.ret = 1]
    ELSE LET s0 == printf(Enter(p), "=== Thyratron/Klystron Decode ===", 0)
             s1 == Run(s0, ThyratronKlystronBody)
             s2 == printf(s1, "--- End Thyratron/Klystron decode ---", 0)
         IN  [s2 EXCEPT !.ret = 0]

pptDecodeMagnetsTimersStatus(p) ==
    IF TooShort(p.nea)
    THEN [printf(Enter(p), "ERROR: received less bytes", p.nea) EXCEPT !.ret = 1]
    ELSE LET s0 == printf(Enter(p), "=== Magnets/Timers/Status Decode ===", 0)
             s1 == Run(s0, MagnetsTimersStatusBody)
             s2 == printf(s1, "--- End Magnets/Timers/Status decode ---", 0)
         IN  [s2 EXCEPT !.ret = 0]

Decode(r, p) ==
    IF r = "TK" THEN pptDecodeThyratronKlystron(p)
    ELSE pptDecodeMagnetsTimersStatus(p)

---------------------------------------------------------------------------
(* Record processing and frame delivery *)

\* The record reads its input link into INPA before it calls its routine.
Fetch(p, buf) == [p EXCEPT !.a = buf, !.nea = Len0(buf)]

Init ==
    /\ frame = MakeFrame(0, 0)
    /\ prec = [r \in Records |-> InitRec]

\* The transport completes a read and delivers a new frame.
NewFrame(buf) ==
    /\ frame' = buf
    /\ UNCHANGED prec

\* Record r is processed: input link fetched, routine called.
Process(r) ==
    /\ prec' = [prec EXCEPT ![r] = Decode(r, Fetch(prec[r], frame))]
    /\ UNCHANGED frame

ProcessThyratronKlystron == Process("TK")

ProcessMagnetsTimersStatus == Process("MTS")

Next ==
    \/ \E buf \in Frames : NewFrame(buf)
    \/ ProcessThyratronKlystron
    \/ ProcessMagnetsTimersStatus

Spec == Init /\ [][Next]_vars

---------------------------------------------------------------------------
(* Documentation the claims compare the routines with *)

\* The header comments of the two routines (pptDecode.c lines 50-65 and
\* 166-181): the bytes each output is documented to come from, and its kind.
Doc(off, kind) == [off |-> off, kind |-> kind]

HeaderThyratronKlystron ==
    [A |-> Doc(0, "Voltage"),      B |-> Doc(2, "Voltage"),
     C |-> Doc(4, "Current"),      D |-> Doc(14, "Voltage"),
     E |-> Doc(16, "Current"),     F |-> Doc(18, "Temperature"),
     G |-> Doc(20, "Temperature"), H |-> Doc(22, "Flow"),
     I |-> Doc(24, "Power"),       J |-> Doc(26, "Temperature"),
     K |-> Doc(10, "Interlock"),   L |-> Doc(12, "Status"),
     M |-> Doc(32, "Interlock"),   N |-> Doc(34, "Status"),
     O |-> Doc(-1, "Reserved")]

HeaderMagnetsTimersStatus ==
    [A |-> Doc(36, "Voltage"),     B |-> Doc(38, "Current"),
     C |-> Doc(40, "Voltage"),     D |-> Doc(42, "Current"),
     E |-> Doc(44, "Voltage"),     F |-> Doc(46, "Current"),
     G |-> Doc(52, "Voltage"),     H |-> Doc(54, "Current"),
     I |-> Doc(6, "Timer"),        J |-> Doc(8, "Timer"),
     K |-> Doc(28, "Timer"),       L |-> Doc(48, "Interlock"),
     M |-> Doc(50, "Status"),      N |-> Doc(56, "Interlock"),
     O |-> Doc(58, "Status")]

Header(r) == IF r = "TK" THEN HeaderThyratronKlystron ELSE HeaderMagnetsTimersStatus

\* The scaling factors of the file header (pptDecode.c lines 19-27).
ScaleOf(kind) ==
    CASE kind \in {"Voltage", "Temperature", "Power"} -> 10
      [] kind \in {"Current", "Flow"} -> 100
      [] OTHER -> 1

\* The unsigned little-endian word of two bytes, by arithmetic.
WordAt(buf, off) == buf[off] + 256 * buf[off + 1]

Prefix(buf, len) == [i \in 0 .. len - 1 |-> buf[i]]

\* The buffer cut down to the two bytes of the word at off.
Only(buf, off) == [i \in {off, off + 1} |-> buf[i]]

\* The last call of record r succeeded: every output was assigned by it.
Decoded(r) == prec[r].written = Outs

\* The last call of record r rejected its buffer.
Rejected(r) == prec[r].ret = 1

\* The field table of the specification (section 6): each row with the
\* offsets its variants give and its divisor.
Row(name, offs, div) == [name |-> name, offs |-> offs, div |-> div]

FieldTable ==
    { Row("HeaterVoltage1", {0}, 10),
      Row("ReservoirVoltage", {2, 4}, 10),
      Row("TotalCurrent", {4}, 100),
      Row("TimerPreheatMin", {6, 12}, 1),
      Row("TimerPreheatSec", {8, 16}, 1),
      Row("InterlockMsg", {10, 20}, 1),
      Row("StatusMsg", {12, 24}, 1),
      Row("HeaterVoltage2", {14, 28}, 10),
      Row("HeaterCurrent", {16, 32}, 100),
      Row("BodyWaterInTemp", {18, 36}, 10),
      Row("BodyWaterOutTemp", {20, 40}, 10),
      Row("BodyWaterFlow", {22, 44}, 100),
      Row("DissipatedPower", {24}, 10),
      Row("OilTemp", {26}, 10),
      Row("TimerPreheat100Min", {28, 48}, 1),
      Row("TimerPreheat100Sec", {52}, 1),
      Row("InterlockMsg2", {32, 56}, 1),
      Row("StatusMsg2", {34, 60}, 1),
      Row("MagnetVoltageCoil1", {36, 72}, 10),
      Row("MagnetCurrentCoil1", {38, 76}, 100),
      Row("MagnetVoltageCoil2", {40, 80}, 10),
      Row("MagnetCurrentCoil2", {42, 84}, 100),
      Row("FocusMagnetCoil3Voltage", {44}, 10),
      Row("FocusMagnetCoil3Current", {46}, 100),
      Row("FocusMagnetInterlock", {48}, 1),
      Row("FocusMagnetStatus", {50}, 1),
      Row("PremagnetisationVoltage", {52}, 10),
      Row("PremagnetisationCurrent", {54}, 100),
      Row("PremagnetisationInterlock", {56}, 1),
      Row("PremagnetisationStatus", {58}, 1),
      Row("KlystronVoltage", {64}, 10),
      Row("KlystronCurrent", {68}, 100) }

---------------------------------------------------------------------------
(* Claims *)

\* C1: a call on a buffer with fewer than 86 received bytes returns 1 and
\* assigns no output: every output VALA..VALO keeps the value it held before
\* the call.
C1_TruncatedRejectedUntouched ==
    [][\A r \in Records :
          (Len0(frame) < 86 /\ Process(r))
              => /\ prec'[r].ret = 1
                 /\ prec'[r].val = prec[r].val
                 /\ prec'[r].written = {}]_vars

\* C1 witness: a record rejected an 85-byte buffer and still holds the
\* nonzero outputs of an earlier decode.
C1_Witness ==
    \E r \in Records :
        /\ prec[r].nea = 85
        /\ prec[r].ret = 1
        /\ prec[r].written = {}
        /\ prec[r].val["A"].n # 0

\* C2: a call on a buffer of at least 86 bytes, whatever the bytes, returns 0
\* and assigns every one of its outputs.
C2_FullLengthAlwaysDecoded ==
    \A r \in Records :
        prec[r].nea >= 86 => (prec[r].ret = 0 /\ prec[r].written = Outs)

\* C2 witness: a record decoded the all-0xFF frame.
C2_Witness ==
    \E r \in Records :
        /\ prec[r].a = MakeFrame(1, 86)
        /\ prec[r].ret = 0
        /\ prec[r].written = Outs

\* C3 (as claimed): once both routines have decoded, every row of the field
\* table has an output computed from one of the row's offsets with the row's
\* divisor.
C3_EveryTableRowDecoded ==
    (\A r \in Records : Decoded(r))
        => \A row \in FieldTable :
              \E r \in Records, o \in Outs :
                  /\ prec[r].from[o].off \in row.offs
                  /\ prec[r].from[o].div = row.div

\* C4: getWord(data, o) is lo + 256 * hi for the bytes lo = data[o] and
\* hi = data[o+1], lies in 0..65535, and depends on no other byte.
C4_WordIsUnsignedLittleEndian ==
    \A o \in 0 .. Len0(frame) - 2 :
        LET w == getWord(frame, o)
        IN  /\ w = WordAt(frame, o)
            /\ w \in 0 .. 65535
            /\ getWord(Only(frame, o), o) = w

\* C4 witness: the routine extracted the word of bytes 129, 136 (both with
\* the high bit set) at offset 18.
C4_Witness ==
    /\ prec["TK"].a = MakeFrame(2, 86)
    /\ prec["TK"].a[18] = 129 /\ prec["TK"].a[19] = 136
    /\ Decoded("TK")
    /\ prec["TK"].val["F"].n = 129 + 256 * 136

\* C5: after a successful call every output is the word at the offset the
\* routine's header comment documents for it, divided by 10 (voltage,
\* temperature, power), by 100 (current, flow) or unscaled (timer, status,
\* interlock); the reserved output is 0.0.
C5_DecodedAsDocumented ==
    \A r \in Records :
        Decoded(r) =>
            \A o \in Outs :
                LET doc == Header(r)[o]
                IN  IF doc.kind = "Reserved"
                    THEN prec[r].val[o] = Zero
                    ELSE prec[r].val[o] = [n |-> WordAt(prec[r].a, doc.off),
                                           d |-> ScaleOf(doc.kind)]

\* C5 witness: word 65535 at the divide-by-100 field Thyratron TotalCurrent
\* decoded to 655.35.
C5_Witness ==
    /\ prec["TK"].a = MakeFrame(1, 86)
    /\ Decoded("TK")
    /\ prec["TK"].val["C"] = [n |-> 65535, d |-> 100]

\* C6: decoding a buffer longer than 86 bytes gives the return code and the
\* outputs that decoding its first 86 bytes alone gives.
C6_TrailingBytesIgnored ==
    \A r \in Records :
        prec[r].nea >= 86 =>
            LET q == Decode(r, Fetch(InitRec, Prefix(prec[r].a, 86)))
            IN  /\ q.ret = prec[r].ret
                /\ q.val = prec[r].val

\* C6 witness: a record decoded a buffer with a nonzero byte at index 86.
C6_Witness ==
    \E r \in Records :
        /\ prec[r].nea > 86
        /\ prec[r].a[86] # 0
        /\ prec[r].ret = 0
        /\ Decoded(r)

\* C7: whatever calls came before, decoding a full-length buffer gives the
\* outputs and return code that a fresh record gives on the same buffer, and
\* decoding the buffer a record has just decoded again changes nothing.
C7_DeterministicStateless ==
    \A r \in Records :
        /\ Len0(frame) >= 86 =>
              LET q == Decode(r, Fetch(prec[r], frame))
                  q0 == Decode(r, Fetch(InitRec, frame))
              IN  q.val = q0.val /\ q.ret = q0.ret
        /\ prec[r].nea >= 86 =>
              LET q == Decode(r, prec[r])
              IN  q.val = prec[r].val /\ q.ret = prec[r].ret

\* C7 witness: a record that holds the nonzero outputs of one frame is about
\* to decode a different full-length frame, while the other record's last
\* call was rejected.
C7_Witness ==
    \E r \in Records, r2 \in Records :
        /\ r # r2
        /\ Decoded(r)
        /\ prec[r].val["B"].n # 0
        /\ Rejected(r2)
        /\ Len0(frame) >= 86
        /\ Prefix(frame, 86) # Prefix(prec[r].a, 86)

\* C8 (as claimed): a call leaves its buffer and length as the record
\* fetched them and prints nothing, whether it decodes or rejects.
C8_NoSideEffects ==
    [][\A r \in Records :
          Process(r)
              => /\ prec'[r].a = frame
                 /\ prec'[r].nea = Len0(frame)
                 /\ prec'[r].out = << >>]_vars

C10_FieldTableWellFormed ==
    LET Read(r) == {o \in Outs : prec[r].from[o] # NoSource}
        HeaterVoltage1 == [n |-> 100, d |-> 10]
    IN  /\ \A r \in Records :
              Decoded(r) =>
                  /\ Cardinality(Read(r)) = Cardinality(Outs \ {oo \in Outs : Header(r)[oo].kind = "Reserved"})
                  /\ \A o \in Read(r) :
                        /\ prec[r].from[o].off % 2 = 0
                        /\ prec[r].from[o].off >= 0
                        /\ prec[r].from[o].off + 1 <= 85
        /\ \A r1 \in Records, r2 \in Records :
              (Decoded(r1) /\ Decoded(r2)) =>
                  \A o1 \in Read(r1), o2 \in Read(r2) :
                      (prec[r1].from[o1].off = prec[r2].from[o2].off)
                          => (r1 = r2 /\ o1 = o2)
        /\ \A r \in Records :
              (Decoded(r) /\ Prefix(prec[r].a, 86) = MakeFrame(0, 86)) =>
                  \A o \in Outs :
                      IF r = "TK" /\ o = "A"
                      THEN prec[r].val[o] = HeaterVoltage1
                      ELSE prec[r].val[o].n = 0

\* C10 witness: both routines decoded the frame that is zero but for word
\* 100 at offset 0.
C10_Witness ==
    /\ \A r \in Records : Decoded(r) /\ prec[r].a = MakeFrame(0, 86)
    /\ prec["TK"].val["A"] = [n |-> 100, d |-> 10]
    /\ prec["MTS"].val["O"] = Zero

=============================================================================
